---------------------------- MODULE Spec2Model ----------------------------
(***************************************************************************)
(* A model of analyzeTranslation, the translation-audit invoker of         *)
(* services/geminiService.ts.  The repository holds seven versions of the  *)
(* function: three in src/services/geminiService.ts (svc1, svc2, svc3) and *)
(* one in each of src/unnamed/part_000 .. part_003 (part0 .. part3).  One  *)
(* invocation is modelled as a state machine whose steps are the code      *)
(* between two suspend points (await generateContent, await sleep).        *)
(***************************************************************************)
EXTENDS Integers, Sequences, FiniteSets, TLC

\* inv: one invocation of analyzeTranslation.  peer: a second invocation
\* running at the same time, where there is one.  fed: for each of the two,
\* the outcomes its remote calls have had so far, in order.
VARIABLES inv, peer, fed

vars == <<inv, peer, fed>>

(***************************************************************************)
(* JavaScript values                                                       *)
(***************************************************************************)

\* An optional value: undefined, or a defined value v.
Undefined == [some |-> FALSE, v |-> <<>>]
Some(x) == [some |-> TRUE, v |-> x]

\* A string argument is a sequence of characters; " " is white space.
Chars == {" ", "k"}

RECURSIVE TrimLeft(_)
TrimLeft(s) ==
  IF s = <<>> THEN <<>>
  ELSE IF Head(s) = " " THEN TrimLeft(Tail(s)) ELSE s

RECURSIVE TrimRight(_)
TrimRight(s) ==
  IF s = <<>> THEN <<>>
  ELSE IF s[Len(s)] = " " THEN TrimRight(SubSeq(s, 1, Len(s) - 1)) ELSE s

\* String.prototype.trim
Trim(s) == TrimRight(TrimLeft(s))

\* The versions of analyzeTranslation.
Variants == {"svc1", "svc2", "svc3", "part0", "part1", "part2", "part3"}

\* The argument strings the model calls analyzeTranslation with.
Texts == {<<>>, <<" ">>, <<" ", "k">>}

\* userApiKey: omitted, or a string.
UserKeys == {Undefined} \cup {Some(t) : t \in {<<>>, <<" ">>, <<"k">>}}

\* The process-level configuration: no process object at all, or a process
\* whose env.API_KEY is undefined or a string.
Envs ==
  {[proc |-> FALSE, key |-> Undefined]} \cup
  {[proc |-> TRUE, key |-> k] : k \in UserKeys}

(***************************************************************************)
(* Input validation                                                        *)
(***************************************************************************)

\* JavaScript truthiness of an optional string: defined and not "".
Truthy(k) == k.some /\ k.v # <<>>

\* userApiKey || (typeof process !== "undefined" ? process.env.API_KEY : undefined)
ResolveApiKey(userApiKey, env) ==
  IF Truthy(userApiKey) THEN userApiKey
  ELSE IF env.proc THEN env.key ELSE Undefined

\* KeyMissing without its !apiKey test.
KeyMissing_OnlyBlank(apiKey) == apiKey.some /\ apiKey.v # <<>> /\ Trim(apiKey.v) = <<>>

\* !apiKey || apiKey.trim() === ""
KeyMissing(apiKey) == ~Truthy(apiKey) \/ Trim(apiKey.v) = <<>>

\* The versions that test the two texts before any remote call.
ChecksEmptyInput(v) == v \in {"svc1", "svc2", "part2", "part3"}

\* !sourceText.trim() || !targetText.trim()
EmptyInput(sourceText, targetText) ==
  Trim(sourceText) = <<>> \/ Trim(targetText) = <<>>

(***************************************************************************)
(* Failures of the remote call                                             *)
(***************************************************************************)

\* An optional number (a status field) and an optional message.
NoNum == [some |-> FALSE, v |-> 0]
Num(n) == [some |-> TRUE, v |-> n]

\* A diagnostic message: the marker words it contains and its length in
\* characters.  The markers are spelled as the remote service spells them.
Words ==
  {"429", "401", "quota", "RESOURCE_EXHAUSTED", "API_KEY_INVALID",
   "api_key_invalid", "blocked", "leaked", "not found"}

Msg(ws, n) == [words |-> ws, len |-> n]
NoMsg == [some |-> FALSE, v |-> Msg({}, 0)]
SomeMsg(m) == [some |-> TRUE, v |-> m]

\* String.prototype.toLowerCase, on one marker and on a message.
Lower(w) ==
  CASE w = "RESOURCE_EXHAUSTED" -> "resource_exhausted"
    [] w = "API_KEY_INVALID" -> "api_key_invalid"
    [] OTHER -> w

ToLowerCase(m) == Msg({Lower(w) : w \in m.words}, m.len)

\* String.prototype.includes
Includes(m, w) == w \in m.words

\* A value the remote call rejects with (what catch receives): null,
\* undefined, a primitive string (text), or an object with optional status,
\* response.status, cause.status and message fields.
ErrNull == [kind |-> "null", status |-> NoNum, response |-> NoNum,
            cause |-> NoNum, message |-> NoMsg, text |-> Msg({}, 0)]
ErrUndefined == [ErrNull EXCEPT !.kind = "undefined"]
\* No value caught.
NoErr == [ErrNull EXCEPT !.kind = "none"]
ErrString(m) == [ErrNull EXCEPT !.kind = "string", !.text = m]
ErrObject(st, rs, cs, m) ==
  [kind |-> "object", status |-> st, response |-> rs, cause |-> cs,
   message |-> m, text |-> Msg({}, 0)]

\* a ?? b
Coalesce(a, b) == IF a.some THEN a ELSE b

\* getStatus looking at cause first and status last.
getStatus_CauseFirst(err) == Coalesce(err.cause, Coalesce(err.response, err.status))

\* getStatus: err?.status ?? err?.response?.status ?? err?.cause?.status
getStatus(err) == Coalesce(err.status, Coalesce(err.response, err.cause))

StatusIs(status, n) == status.some /\ status.v = n

\* String(err?.message ?? err)
MessageString(err) ==
  CASE err.kind = "null" -> Msg({}, 4)               \* "null"
    [] err.kind = "undefined" -> Msg({}, 9)          \* "undefined"
    [] err.kind = "string" -> err.text
    [] OTHER -> IF err.message.some THEN err.message.v
                ELSE Msg({}, 15)                     \* "[object Object]"

\* part0 reads error.message without ?. : a TypeError on null and undefined.
MessageThrows(err) == err.kind \in {"null", "undefined"}

\* error.message || ""  (part0)
MessageOrEmpty(err) ==
  IF err.kind = "object" /\ err.message.some /\ err.message.v.len > 0
  THEN err.message.v ELSE Msg({}, 0)

(***************************************************************************)
(* Results and the decisions of a catch block                              *)
(***************************************************************************)

\* A parsed JSON value: null, a number, an array, a string (its text) or an
\* object with optional feedback and wordBreakdown members.
NoStr == [some |-> FALSE, v |-> ""]
NoSeq == [some |-> FALSE, v |-> <<>>]
JValue(type, f, w, text) ==
  [type |-> type, feedback |-> f, wordBreakdown |-> w, text |-> text]
NoValue == JValue("none", NoStr, NoSeq, <<>>)
JNull == JValue("null", NoStr, NoSeq, <<>>)
JNumber == JValue("number", NoStr, NoSeq, <<>>)
JArray == JValue("array", NoStr, NoSeq, <<>>)
JString(text) == JValue("string", NoStr, NoSeq, text)
JObject(f, w) == JValue("object", f, w, <<>>)

\* A returned string: which message it is and, for the Analysis Failed
\* template, the diagnostic text interpolated into it.
Str(tag, detail) ==
  [kind |-> "string", tag |-> tag, detail |-> detail, value |-> NoValue]

Literal(tag) == Str(tag, Msg({}, 0))

\* A returned parsed JSON value.
Value(val) ==
  [kind |-> "value", tag |-> "", detail |-> Msg({}, 0), value |-> val]

NoResult == [kind |-> "none", tag |-> "", detail |-> Msg({}, 0), value |-> NoValue]

\* What a catch block decides: return a string, suspend and retry, or let
\* an exception escape.
Return(res) == [act |-> "return", result |-> res]
Retry == [act |-> "retry", result |-> NoResult]
Throw == [act |-> "throw", result |-> NoResult]

maxRetries == 3

\* msg.substring(0, 150)
SubstringLimit == 150
Substring(m) == Msg(m.words, IF m.len < SubstringLimit THEN m.len ELSE SubstringLimit)

(***************************************************************************)
(* The catch blocks, one per version                                       *)
(***************************************************************************)

IsAuthStatus(status) == StatusIs(status, 401) \/ StatusIs(status, 403)
IsServerStatus(status) == StatusIs(status, 500) \/ StatusIs(status, 503)
IsBlockedStr(errorStr) == Includes(errorStr, "blocked") \/ Includes(errorStr, "leaked")
IsNotFound(status, errorStr) == StatusIs(status, 404) \/ Includes(errorStr, "not found")

\* status === 429 || "429" || "quota" || "resource_exhausted"  (svc1, svc2)
IsQuotaWide(status, errorStr) ==
  \/ StatusIs(status, 429)
  \/ Includes(errorStr, "429")
  \/ Includes(errorStr, "quota")
  \/ Includes(errorStr, "resource_exhausted")

\* status === 429 || "429" || "quota"  (svc3, part1, part2, part3)
IsQuota(status, errorStr) ==
  \/ StatusIs(status, 429)
  \/ Includes(errorStr, "429")
  \/ Includes(errorStr, "quota")

\* CatchSvc1 retrying without its attempt < maxRetries test.
CatchSvc1_AlwaysRetry(err, attempt) ==
  LET status == getStatus(err)
      msg == MessageString(err)
      errorStr == ToLowerCase(msg)
  IN  IF IsAuthStatus(status) \/ Includes(errorStr, "api_key_invalid")
        THEN Return(Literal("InvalidCredential"))
      ELSE IF IsBlockedStr(errorStr) THEN Return(Literal("Blocked"))
      ELSE IF IsQuotaWide(status, errorStr) \/ IsServerStatus(status) THEN Retry
      ELSE Return(Str("AnalysisFailed", msg))

CatchSvc1(err, attempt) ==
  LET status == getStatus(err)
      msg == MessageString(err)
      errorStr == ToLowerCase(msg)
      isQuota == IsQuotaWide(status, errorStr)
      isServer == IsServerStatus(status)
  IN  IF IsAuthStatus(status) \/ Includes(errorStr, "api_key_invalid")
        THEN Return(Literal("InvalidCredential"))
      ELSE IF IsBlockedStr(errorStr) THEN Return(Literal("Blocked"))
      ELSE IF (isQuota \/ isServer) /\ attempt < maxRetries THEN Retry
      ELSE IF isQuota THEN Return(Literal("QuotaExceeded"))
      ELSE Return(Str("AnalysisFailed", msg))

CatchSvc2(err, attempt) ==
  LET status == getStatus(err)
      msg == MessageString(err)
      errorStr == ToLowerCase(msg)
      isQuota == IsQuotaWide(status, errorStr)
      isServer == IsServerStatus(status)
  IN  IF IsAuthStatus(status) \/ Includes(msg, "API_KEY_INVALID")
        THEN Return(Literal("InvalidCredential"))
      ELSE IF IsBlockedStr(errorStr) THEN Return(Literal("Blocked"))
      ELSE IF (isQuota \/ isServer) /\ attempt < maxRetries THEN Retry
      ELSE IF isQuota THEN Return(Literal("QuotaExceeded"))
      ELSE Return(Str("AnalysisFailed", msg))

CatchSvc3(err, attempt) ==
  LET status == getStatus(err)
      msg == MessageString(err)
      errorStr == ToLowerCase(msg)
      isQuota == IsQuota(status, errorStr)
  IN  IF IsAuthStatus(status) \/ Includes(errorStr, "api_key_invalid")
        THEN Return(Literal("InvalidCredential"))
      ELSE IF IsBlockedStr(errorStr) THEN Return(Literal("Blocked"))
      ELSE IF (isQuota \/ IsServerStatus(status)) /\ attempt < maxRetries THEN Retry
      ELSE IF isQuota THEN Return(Literal("QuotaExceeded"))
      ELSE Return(Str("AnalysisFailed", msg))

CatchPart0(err, retryCount) ==
  IF MessageThrows(err) THEN Throw
  ELSE
    LET errorMessage == MessageOrEmpty(err)
    IN  IF Includes(errorMessage, "429") /\ retryCount < maxRetries THEN Retry
        ELSE IF Includes(errorMessage, "429") THEN Return(Literal("QuotaExceeded"))
        ELSE IF Includes(errorMessage, "401") THEN Return(Literal("InvalidCredential"))
        ELSE Return(Str("AnalysisFailed", Substring(errorMessage)))

CatchPart1(err, attempt) ==
  LET status == getStatus(err)
      msg == MessageString(err)
      errorStr == ToLowerCase(msg)
      isQuota == IsQuota(status, errorStr)
      isServer == IsServerStatus(status)
  IN  IF IsNotFound(status, errorStr) THEN Return(Literal("ModelNotFound"))
      ELSE IF IsAuthStatus(status) \/ Includes(errorStr, "api_key_invalid")
        THEN Return(Literal("InvalidCredential"))
      ELSE IF (isQuota \/ isServer) /\ attempt < maxRetries THEN Retry
      ELSE IF isQuota THEN Return(Literal("QuotaExceeded"))
      ELSE Return(Str("AnalysisFailed", msg))

CatchPart2(error, attempt) ==
  LET status == getStatus(error)
      msg == MessageString(error)
      errorStr == ToLowerCase(msg)
      isQuota == IsQuota(status, errorStr)
  IN  IF (isQuota \/ IsServerStatus(status)) /\ attempt < maxRetries THEN Retry
      ELSE IF isQuota THEN Return(Literal("QuotaExceeded"))
      ELSE IF IsAuthStatus(status) \/ Includes(errorStr, "api_key_invalid")
        THEN Return(Literal("InvalidCredential"))
      ELSE Return(Str("AnalysisFailed", msg))

CatchPart3(error, attempt) ==
  LET status == getStatus(error)
      msg == MessageString(error)
      errorStr == ToLowerCase(msg)
      isQuota == IsQuota(status, errorStr)
  IN  IF isQuota /\ attempt < maxRetries THEN Retry
      ELSE IF isQuota THEN Return(Literal("QuotaExceeded"))
      ELSE IF IsAuthStatus(status) \/ Includes(errorStr, "api_key_invalid")
        THEN Return(Literal("InvalidCredential"))
      ELSE IF IsNotFound(status, errorStr) THEN Return(Literal("ModelNotFound"))
      ELSE Return(Str("AnalysisFailed", msg))

Catch(v, err, attempt) ==
  CASE v = "svc1" -> CatchSvc1(err, attempt)
    [] v = "svc2" -> CatchSvc2(err, attempt)
    [] v = "svc3" -> CatchSvc3(err, attempt)
    [] v = "part0" -> CatchPart0(err, attempt)
    [] v = "part1" -> CatchPart1(err, attempt)
    [] v = "part2" -> CatchPart2(err, attempt)
    [] v = "part3" -> CatchPart3(err, attempt)

(***************************************************************************)
(* The text payload of a successful remote call                            *)
(***************************************************************************)

\* A JSON text is a sequence of lexemes: the brackets, null, a number, a
\* member name (key) and a string.  s is the content of a name or a string;
\* text is the content of a string that is itself a payload.
Lex(l) == [lex |-> l, s |-> "", text |-> <<>>]
Key(k) == [lex |-> "key", s |-> k, text |-> <<>>]
StrLex(x) == [lex |-> "string", s |-> x, text |-> <<>>]
TextLex(t) == [lex |-> "string", s |-> "", text |-> t]

\* The wire form of one wordBreakdown item of the response schema.
StringifyItem(m) ==
  <<Lex("{"), Key("targetWord"), StrLex(m.targetWord),
    Key("sourceEquivalent"), StrLex(m.sourceEquivalent),
    Key("context"), StrLex(m.context), Lex("}")>>

RECURSIVE StringifyItems(_)
StringifyItems(q) ==
  IF q = <<>> THEN <<>> ELSE StringifyItem(Head(q)) \o StringifyItems(Tail(q))

\* The wire form of a JSON value: what the remote service writes for it.
Stringify(val) ==
  CASE val.type = "null" -> <<Lex("null")>>
    [] val.type = "number" -> <<Lex("number")>>
    [] val.type = "array" -> <<Lex("["), Lex("]")>>
    [] val.type = "string" -> <<TextLex(val.text)>>
    [] OTHER ->
         <<Lex("{")>> \o
         (IF val.feedback.some
          THEN <<Key("feedback"), StrLex(val.feedback.v)>> ELSE <<>>) \o
         (IF val.wordBreakdown.some
          THEN <<Key("wordBreakdown"), Lex("[")>> \o
               StringifyItems(val.wordBreakdown.v) \o <<Lex("]")>>
          ELSE <<>>) \o
         <<Lex("}")>>

\* A payload is a sequence of tokens: white space, a newline, a code fence
\* (three backquotes), a run of letters (a language tag), text that is not
\* JSON (with the marker words it contains), or one complete JSON document
\* (its lexemes).
Tok(t) == [t |-> t, json |-> <<>>, words |-> {}]
Doc(j) == [t |-> "doc", json |-> Stringify(j), words |-> {}]
Junk(ws) == [t |-> "junk", json |-> <<>>, words |-> ws]

IsSpace(tok) == tok.t \in {"ws", "nl"}

RECURSIVE TrimTokLeft(_)
TrimTokLeft(s) ==
  IF s = <<>> THEN <<>>
  ELSE IF IsSpace(Head(s)) THEN TrimTokLeft(Tail(s)) ELSE s

RECURSIVE TrimTokRight(_)
TrimTokRight(s) ==
  IF s = <<>> THEN <<>>
  ELSE IF IsSpace(s[Len(s)]) THEN TrimTokRight(SubSeq(s, 1, Len(s) - 1)) ELSE s

\* String.prototype.trim on a payload
TrimTok(s) == TrimTokRight(TrimTokLeft(s))

\* [a-zA-Z]* : drop the leading run of letters
RECURSIVE DropLetters(_)
DropLetters(s) ==
  IF s # <<>> /\ Head(s).t = "tag" THEN DropLetters(Tail(s)) ELSE s

\* \n? : drop one newline if there is one
DropNewline(s) == IF s # <<>> /\ Head(s).t = "nl" THEN Tail(s) ELSE s

\* .replace(/```$/, "") : drop a fence that ends the text
DropFinalFence(s) ==
  IF s # <<>> /\ s[Len(s)].t = "fence" THEN SubSeq(s, 1, Len(s) - 1) ELSE s

cleanJsonText(s) ==
  LET t == TrimTok(s)
  IN  IF t # <<>> /\ Head(t).t = "fence"
      THEN TrimTok(DropFinalFence(DropNewline(DropLetters(Tail(t)))))
      ELSE t

\* ParseItems yielding the items last to first.
RECURSIVE ParseItems_Reversed(_)
ParseItems_Reversed(q) ==
  IF q = <<>> THEN <<>>
  ELSE ParseItems_Reversed(SubSeq(q, 9, Len(q))) \o
       <<[targetWord |-> q[3].s, sourceEquivalent |-> q[5].s, context |-> q[7].s]>>

\* JSON.parse on the lexemes of the items of an array, in their order.
RECURSIVE ParseItems(_)
ParseItems(q) ==
  IF q = <<>> THEN <<>>
  ELSE <<[targetWord |-> q[3].s, sourceEquivalent |-> q[5].s, context |-> q[7].s]>> \o
       ParseItems(SubSeq(q, 9, Len(q)))

\* JSON.parse on the lexemes of an object: its members, in their order.
ParseObject(members) ==
  LET hasFeedback == members # <<>> /\ members[1] = Key("feedback")
      rest == IF hasFeedback THEN SubSeq(members, 3, Len(members)) ELSE members
      hasWords == rest # <<>> /\ rest[1] = Key("wordBreakdown")
  IN  JObject(IF hasFeedback THEN [some |-> TRUE, v |-> members[2].s] ELSE NoStr,
              IF hasWords
              THEN [some |-> TRUE, v |-> ParseItems(SubSeq(rest, 3, Len(rest) - 1))]
              ELSE NoSeq)

\* JSON.parse on the lexemes of one JSON document.
ParseJson(lx) ==
  CASE lx[1].lex = "null" -> JNull
    [] lx[1].lex = "number" -> JNumber
    [] lx[1].lex = "[" -> JArray
    [] lx[1].lex = "string" -> JString(lx[1].text)
    [] OTHER -> ParseObject(SubSeq(lx, 2, Len(lx) - 1))

\* JSON.parse succeeds exactly on one JSON document with optional white
\* space around it.
Parses(s) == Len(TrimTok(s)) = 1 /\ TrimTok(s)[1].t = "doc"
Parsed(s) == ParseJson(TrimTok(s)[1].json)

\* The SyntaxError JSON.parse throws otherwise.  Its message quotes the
\* offending text on some engines and not on others.
SyntaxErrors(s) ==
  {ErrObject(NoNum, NoNum, NoNum, SomeMsg(Msg({}, 40)))} \cup
  {ErrObject(NoNum, NoNum, NoNum, SomeMsg(Msg(s[i].words, 40))) :
     i \in {k \in 1..Len(s) : s[k].t = "junk"}}

\* EmptyResponseError with a quota marker in its message.
EmptyResponseError_Quota ==
  ErrObject(NoNum, NoNum, NoNum, SomeMsg(Msg({"quota"}, 31)))

\* throw new Error("Empty response.text from model.")
EmptyResponseError ==
  ErrObject(NoNum, NoNum, NoNum, SomeMsg(Msg({}, 31)))

Ok(val) == [ok |-> TRUE, value |-> val, err |-> NoErr]
Fail(e) == [ok |-> FALSE, value |-> NoValue, err |-> e]

\* The versions that clean the text and parse a string result once more.
UsesCleanJson(v) == v \in {"svc1", "svc2", "svc3", "part1"}

\* JSON.parse(cleaned); if (typeof parsed === "string") parsed = JSON.parse(parsed)
ParseTwice(cleaned) ==
  IF ~Parses(cleaned) THEN {Fail(e) : e \in SyntaxErrors(cleaned)}
  ELSE IF Parsed(cleaned).type = "string"
    THEN IF Parses(Parsed(cleaned).text)
         THEN {Ok(Parsed(Parsed(cleaned).text))}
         ELSE {Fail(e) : e \in SyntaxErrors(Parsed(cleaned).text)}
  ELSE {Ok(Parsed(cleaned))}

\* JSON.parse(text)
ParseOnce(text) ==
  IF Parses(text) THEN {Ok(Parsed(text))}
  ELSE {Fail(e) : e \in SyntaxErrors(text)}

\* The body of try after the remote call resolved with response.text = text
\* (an optional payload): the values it can return or the errors it throws.
TryBody(v, text) ==
  IF ~text.some \/ text.v = <<>> THEN {Fail(EmptyResponseError)}
  ELSE IF UsesCleanJson(v) THEN ParseTwice(cleanJsonText(text.v))
  ELSE ParseOnce(text.v)

(***************************************************************************)
(* Backoff                                                                 *)
(***************************************************************************)

baseDelay(v) == IF v \in {"svc3", "part0"} THEN 2000 ELSE 1000

\* The N of Math.floor(Math.random() * N); part0 adds no jitter.
jitterBound(v) ==
  CASE v = "svc1" -> 200
    [] v = "svc2" -> 150
    [] v = "svc3" -> 500
    [] v = "part0" -> 1
    [] v = "part1" -> 200
    [] v = "part2" -> 150
    [] v = "part3" -> 200

\* Math.floor(Math.random() * N) is any integer of 0 .. N-1; the model draws
\* the least and the greatest.
Jitters(v) == {0, jitterBound(v) - 1}

RECURSIVE Pow2(_)
Pow2(n) == IF n = 0 THEN 1 ELSE 2 * Pow2(n - 1)

\* Delay growing by baseDelay for each attempt, not doubling.
Delay_Linear(v, attempt, jitter) == baseDelay(v) * (attempt + 1) + jitter

\* baseDelay * Math.pow(2, attempt) + jitter
Delay(v, attempt, jitter) == baseDelay(v) * Pow2(attempt) + jitter

(***************************************************************************)
(* The values the model feeds the invocation                               *)
(***************************************************************************)

Statuses == {NoNum, Num(400), Num(401), Num(403), Num(404), Num(429), Num(500), Num(503)}

\* Greatest length of a diagnostic message the remote call produces.
MaxMsgLen == 151

MarkerSets ==
  {{w} : w \in Words} \cup
  {{"quota", "blocked"}, {"429", "401"}, {"429", "quota", "RESOURCE_EXHAUSTED"}}

Messages ==
  {NoMsg} \cup {SomeMsg(Msg({}, n)) : n \in {0, 20, MaxMsgLen}} \cup
  {SomeMsg(Msg(ws, 20)) : ws \in MarkerSets}

Errs ==
  {ErrNull, ErrUndefined, ErrString(Msg({}, 20)), ErrString(Msg({"quota"}, 20))} \cup
  {ErrObject(st, NoNum, NoNum, m) : st \in Statuses, m \in Messages} \cup
  {ErrObject(NoNum, Num(429), NoNum, NoMsg), ErrObject(NoNum, NoNum, Num(503), NoMsg),
   ErrObject(NoNum, Num(401), Num(429), NoMsg)}

\* Greatest number of entries of a wordBreakdown.
MaxWords == 2

WordMappings ==
  {[targetWord |-> "Hola", sourceEquivalent |-> "Hello", context |-> "greeting"],
   [targetWord |-> "mundo", sourceEquivalent |-> "world", context |-> "noun"]}

RECURSIVE SeqsUpTo(_, _)
SeqsUpTo(S, n) ==
  IF n = 0 THEN {<<>>}
  ELSE SeqsUpTo(S, n - 1) \cup
       {Append(q, x) : q \in {r \in SeqsUpTo(S, n - 1) : Len(r) = n - 1}, x \in S}

\* The values of the AnalysisResult interface.
AuditResults ==
  {JObject([some |-> TRUE, v |-> f], [some |-> TRUE, v |-> w]) :
     f \in {"ok", "tone shift"}, w \in SeqsUpTo(WordMappings, MaxWords)}

OneAudit == JObject([some |-> TRUE, v |-> "ok"], [some |-> TRUE, v |-> <<>>])

\* JSON documents the remote call can answer with.
Documents ==
  AuditResults \cup
  {JNull, JNumber, JArray, JObject(NoStr, NoSeq),
   JObject([some |-> TRUE, v |-> "ok"], NoSeq),
   JString(<<Doc(OneAudit)>>), JString(<<Junk({})>>),
   JString(<<Doc(JString(<<Doc(OneAudit)>>))>>)}

\* response.text: undefined, or a text.
Payloads ==
  {Undefined, Some(<<>>), Some(<<Tok("ws")>>)} \cup
  {Some(<<Junk(ws)>>) : ws \in {{}, {"quota"}, {"blocked"}, {"429"}}} \cup
  {Some(<<Doc(d)>>) : d \in Documents} \cup
  {Some(<<Tok("ws"), Doc(d), Tok("nl")>>) : d \in {OneAudit}} \cup
  {Some(<<Tok("fence"), Tok("tag"), Tok("nl"), Doc(d), Tok("nl"), Tok("fence")>>) :
     d \in AuditResults} \cup
  {Some(<<Tok("fence"), Tok("nl"), Doc(d), Tok("nl"), Tok("fence")>>) : d \in {OneAudit}} \cup
  {Some(<<Tok("fence"), Doc(d), Tok("fence"), Tok("nl")>>) : d \in {OneAudit}} \cup
  {Some(<<Tok("fence"), Tok("tag"), Tok("nl"), Doc(d)>>) : d \in {OneAudit}} \cup
  {Some(<<Junk({}), Tok("fence"), Tok("tag"), Tok("nl"), Doc(d), Tok("fence")>>) :
     d \in {OneAudit}}

(***************************************************************************)
(* One invocation                                                          *)
(***************************************************************************)

\* The constant response of the iteration in progress: none yet, or the
\* object the remote call resolved with, of which the code reads .text.
NoResponse == [some |-> FALSE, text |-> Undefined]
Response(text) == [some |-> TRUE, text |-> text]

\* pc: "entry" (called, nothing run yet), "awaitCall" (suspended in await
\* generateContent), "sleeping" (suspended in await sleep), "returned",
\* "threw" (the promise rejected).
\* apiKey: the constant apiKey, the credential the client is built with.
\* attempt: the loop counter (part0: retryCount).  calls: remote calls
\* issued.  delays: the delays slept or being slept, in order.  err: the
\* value the catch block in progress caught.  result: the value returned.
\* response: what the remote call of this iteration resolved with.
\* only429, first503: history of the remote outcomes so far (every call
\* failed with status 429 and was of class QuotaExceeded; the first call
\* failed with status 503 and was of class ServerUnavailable).
Start(v, userApiKey, env, sourceText, targetText) ==
  [variant |-> v, userApiKey |-> userApiKey, env |-> env,
   sourceText |-> sourceText, targetText |-> targetText,
   apiKey |-> Undefined,
   pc |-> "entry", attempt |-> 0, calls |-> 0, delays |-> <<>>,
   response |-> NoResponse, err |-> NoErr, result |-> NoResult,
   only429 |-> TRUE, first503 |-> FALSE]

\* The values a caller can give the counter: part0 takes it as its fifth
\* parameter, retryCount = 0; the others declare it in the loop.
RetryCounts(v) == IF v = "part0" THEN {0, 1, maxRetries + 1} ELSE {0}

\* The call with the counter at retryCount.
Called(v, userApiKey, env, sourceText, targetText, retryCount) ==
  [Start(v, userApiKey, env, sourceText, targetText) EXCEPT !.attempt = retryCount]

\* From the call to the first suspend point: the credential and text checks,
\* then the first remote call.  (Constructing the client with a non-empty
\* key is taken not to throw.)
Validate(s) ==
  LET k == [s EXCEPT !.apiKey = ResolveApiKey(s.userApiKey, s.env)]
  IN  IF KeyMissing(k.apiKey)
        THEN [k EXCEPT !.pc = "returned", !.result = Literal("MissingCredential")]
      ELSE IF ChecksEmptyInput(s.variant) /\ EmptyInput(s.sourceText, s.targetText)
        THEN [k EXCEPT !.pc = "returned", !.result = Literal("EmptyInput")]
      ELSE [k EXCEPT !.pc = "awaitCall", !.calls = 1]

\* The class the specification gives a failure (section 4.3, step 3, in its
\* order), from the status and the lower-case diagnostic message.
SpecClass(e) ==
  LET status == getStatus(e)
      m == ToLowerCase(MessageString(e))
  IN  CASE IsAuthStatus(status) \/ Includes(m, "api_key_invalid") -> "Unauthorized"
        [] Includes(m, "blocked") \/ Includes(m, "leaked") -> "Blocked"
        [] \/ StatusIs(status, 429)
           \/ Includes(m, "429") \/ Includes(m, "quota")
           \/ Includes(m, "resource_exhausted") -> "QuotaExceeded"
        [] IsServerStatus(status) -> "ServerUnavailable"
        [] StatusIs(status, 404) \/ Includes(m, "not found") -> "NotFound"
        [] OTHER -> "Unknown"

\* A failure with status 429 that the specification classes QuotaExceeded.
QuotaFailure(e) == StatusIs(getStatus(e), 429) /\ SpecClass(e) = "QuotaExceeded"

\* The catch block on the value e, drawing the jitter j.
Caught(s, e, j) ==
  LET d == Catch(s.variant, e, s.attempt)
      h == [s EXCEPT !.err = e,
                     !.only429 = s.only429 /\ QuotaFailure(e),
                     !.first503 = IF s.calls = 1
                                  THEN StatusIs(getStatus(e), 503) /\
                                       SpecClass(e) = "ServerUnavailable"
                                  ELSE s.first503]
  IN  CASE d.act = "retry" ->
             [h EXCEPT !.pc = "sleeping",
                       !.delays = Append(s.delays, Delay(s.variant, s.attempt, j))]
        [] d.act = "return" -> [h EXCEPT !.pc = "returned", !.result = d.result]
        [] d.act = "throw" -> [h EXCEPT !.pc = "threw"]

\* The remote call resolved and the try body produced o.
Resolved(s, o, j) ==
  IF o.ok
  THEN [s EXCEPT !.pc = "returned", !.result = Value(o.value), !.only429 = FALSE]
  ELSE Caught([s EXCEPT !.only429 = FALSE], o.err, j)

\* The sleep ended: continue, attempt++, the loop test, the next remote call.
Woken(s) ==
  IF s.attempt + 1 <= maxRetries
  THEN [s EXCEPT !.pc = "awaitCall", !.attempt = s.attempt + 1,
                 !.calls = s.calls + 1, !.err = NoErr, !.response = NoResponse]
  ELSE [s EXCEPT !.pc = "returned", !.attempt = s.attempt + 1, !.err = NoErr,
                 !.response = NoResponse,
                 !.result = Literal("RetriesExhausted")]

(***************************************************************************)
(* The state machine                                                       *)
(***************************************************************************)

\* No second invocation, and no outcomes recorded.
NoPeer == [pc |-> "absent"]
NoFed == <<<<>>, <<>>>>

\* The arguments of the invocations whose retry loop is explored in full.
Init ==
  /\ \E v \in Variants, k \in {Undefined, Some(<<"k">>)},
        e \in {[proc |-> FALSE, key |-> Undefined]},
        src \in {<<" ", "k">>}, tgt \in {<<" ">>, <<" ", "k">>} :
       \E r \in RetryCounts(v) : inv = Called(v, k, e, src, tgt, r)
  /\ peer = NoPeer
  /\ fed = NoFed

\* Every combination of arguments and process-level configuration.
InitArgs ==
  /\ \E v \in Variants, k \in UserKeys, e \in Envs, src \in Texts, tgt \in Texts :
       inv = Start(v, k, e, src, tgt)
  /\ peer = NoPeer
  /\ fed = NoFed

Enter ==
  /\ inv.pc = "entry"
  /\ inv' = Validate(inv)
  /\ UNCHANGED <<peer, fed>>

RemoteFailsWith(E) ==
  /\ inv.pc = "awaitCall"
  /\ \E e \in E, j \in Jitters(inv.variant) : inv' = Caught(inv, e, j)
  /\ UNCHANGED <<peer, fed>>

RemoteSucceedsWith(P) ==
  /\ inv.pc = "awaitCall"
  /\ \E text \in P, j \in Jitters(inv.variant) :
       \E o \in TryBody(inv.variant, text) :
         inv' = Resolved([inv EXCEPT !.response = Response(text)], o, j)
  /\ UNCHANGED <<peer, fed>>

RemoteFails == RemoteFailsWith(Errs)

RemoteSucceeds == RemoteSucceedsWith(Payloads)

SleepElapses ==
  /\ inv.pc = "sleeping"
  /\ inv' = Woken(inv)
  /\ UNCHANGED <<peer, fed>>

Next == Enter \/ RemoteFails \/ RemoteSucceeds \/ SleepElapses

Spec == Init /\ [][Next]_vars

\* Every started step finishes: the remote call settles and the timer fires.
FairSpec == Spec /\ WF_vars(Next)

\* All argument combinations, against a remote call with few outcomes.
FewErrs ==
  {ErrObject(Num(429), NoNum, NoNum, NoMsg), ErrObject(Num(503), NoNum, NoNum, NoMsg),
   ErrObject(Num(401), NoNum, NoNum, NoMsg),
   ErrObject(NoNum, NoNum, NoNum, SomeMsg(Msg({"429"}, 20)))}

FewPayloads == {Undefined, Some(<<Doc(OneAudit)>>)}

RemoteFailsFew == RemoteFailsWith(FewErrs)

RemoteSucceedsFew == RemoteSucceedsWith(FewPayloads)

NextArgs == Enter \/ RemoteFailsFew \/ RemoteSucceedsFew \/ SleepElapses

ArgSpec == InitArgs /\ [][NextArgs]_vars

(***************************************************************************)
(* Two invocations at the same time                                        *)
(***************************************************************************)

\* The two invocations run on one thread: their steps between suspend
\* points interleave.  Everything an invocation changes is a constant or a
\* variable of its own call (apiKey, ai, prompt, attempt / retryCount,
\* response, err); the module holds functions and constants only.

\* Invocation i: 1 is inv, 2 is peer.
Get(i) == IF i = 1 THEN inv ELSE peer

\* Others with one attempt counter for both invocations.
Others_SharedAttempt(other, new) == [other EXCEPT !.attempt = new.attempt]

\* What a step that takes one invocation to `new` makes of the other
\* invocation: nothing changes in it.
Others(other, new) == other

\* Invocation i steps to new.
Put(i, new) ==
  IF i = 1 THEN inv' = new /\ peer' = Others(peer, new)
  ELSE peer' = new /\ inv' = Others(inv, new)

\* An outcome of a remote call: it rejected with err, or it resolved with
\* response.text = text and the try body came to o.
Rejects(e) == [rejects |-> TRUE, err |-> e, text |-> Undefined, o |-> Fail(e)]
Resolves(text, o) == [rejects |-> FALSE, err |-> NoErr, text |-> text, o |-> o]

PairErrs ==
  {ErrObject(Num(429), NoNum, NoNum, NoMsg), ErrObject(Num(401), NoNum, NoNum, NoMsg)}

PairPayloads == {Some(<<Doc(OneAudit)>>)}

\* Two calls of the same function, the second with either target text.
InitPair ==
  /\ \E v \in Variants, tgt \in {<<" ">>, <<" ", "k">>} :
       /\ inv = Start(v, Some(<<"k">>), [proc |-> FALSE, key |-> Undefined],
                      <<" ", "k">>, <<" ", "k">>)
       /\ peer = Start(v, Some(<<"k">>), [proc |-> FALSE, key |-> Undefined],
                       <<" ", "k">>, tgt)
  /\ fed = NoFed

PairEnter(i) ==
  /\ Get(i).pc = "entry"
  /\ Put(i, Validate(Get(i)))
  /\ UNCHANGED fed

PairFails(i) ==
  /\ Get(i).pc = "awaitCall"
  /\ \E e \in PairErrs, j \in Jitters(Get(i).variant) :
       /\ Put(i, Caught(Get(i), e, j))
       /\ fed' = [fed EXCEPT ![i] = Append(@, Rejects(e))]

PairSucceeds(i) ==
  /\ Get(i).pc = "awaitCall"
  /\ \E text \in PairPayloads, j \in Jitters(Get(i).variant) :
       \E o \in TryBody(Get(i).variant, text) :
         /\ Put(i, Resolved([Get(i) EXCEPT !.response = Response(text)], o, j))
         /\ fed' = [fed EXCEPT ![i] = Append(@, Resolves(text, o))]

PairWakes(i) ==
  /\ Get(i).pc = "sleeping"
  /\ Put(i, Woken(Get(i)))
  /\ UNCHANGED fed

NextPair ==
  \E i \in {1, 2} : PairEnter(i) \/ PairFails(i) \/ PairSucceeds(i) \/ PairWakes(i)

PairSpec == InitPair /\ [][NextPair]_vars

(***************************************************************************)
(* getStatus on its own                                                    *)
(***************************************************************************)

\* The values getStatus is called with: null, undefined, a string, and
\* objects with every combination of status, response.status and
\* cause.status absent (or null) and present, 0 included.
StatusValues == {NoNum, Num(0), Num(429), Num(503)}

StatusErrs ==
  {ErrNull, ErrUndefined, ErrString(Msg({}, 20))} \cup
  {ErrObject(st, rs, cs, NoMsg) : st \in StatusValues, rs \in StatusValues,
                                 cs \in StatusValues}

InitStatus ==
  /\ \E e \in StatusErrs : inv = [pc |-> "getStatus", err |-> e, status |-> NoNum]
  /\ peer = NoPeer
  /\ fed = NoFed

\* const status = getStatus(err)
GetStatus ==
  /\ inv.pc = "getStatus"
  /\ inv' = [inv EXCEPT !.pc = "gotStatus", !.status = getStatus(inv.err)]
  /\ UNCHANGED <<peer, fed>>

NextStatus == GetStatus

StatusSpec == InitStatus /\ [][NextStatus]_vars

(***************************************************************************)
(* Properties                                                              *)
(***************************************************************************)

Settled == inv.pc \in {"returned", "threw"}

\* The caller gave no credential (omitted or "") and the process gives none
\* (no process, or API_KEY undefined or "").
CredentialAbsent ==
  /\ ~Truthy(inv.userApiKey)
  /\ ~inv.env.proc \/ ~Truthy(inv.env.key)

UsableCredential == ~KeyMissing(ResolveApiKey(inv.userApiKey, inv.env))

IsAuditResult(val) ==
  val.type = "object" /\ val.feedback.some /\ val.wordBreakdown.some

RECURSIVE StrictlyIncreasing(_)
StrictlyIncreasing(q) ==
  Len(q) < 2 \/ (q[1] < q[2] /\ StrictlyIncreasing(Tail(q)))

\* C1: an invocation with no caller credential and no process-level default
\* returns the MissingCredential string and makes no remote call.
C1_MissingCredential ==
  (inv.pc # "entry" /\ CredentialAbsent) =>
    /\ inv.pc = "returned"
    /\ inv.result = Literal("MissingCredential")
    /\ inv.calls = 0

C1_Witness ==
  /\ inv.pc = "returned"
  /\ inv.userApiKey = Undefined
  /\ inv.env.proc /\ inv.env.key = Undefined
  /\ inv.result = Literal("MissingCredential")
  /\ inv.calls = 0

\* C2: with a usable credential and a source or target text that is empty
\* after trimming, the invocation returns the EmptyInput string and makes
\* no remote call.
C2_EmptyInput ==
  (inv.pc # "entry" /\ UsableCredential /\ EmptyInput(inv.sourceText, inv.targetText)) =>
    /\ inv.pc = "returned"
    /\ inv.result = Literal("EmptyInput")
    /\ inv.calls = 0

\* C3: when every remote call failed with a status 429 quota failure, the
\* settled invocation made maxRetries + 1 remote calls, slept maxRetries
\* strictly increasing delays and returned the quota-exceeded string.
C3_QuotaExhaustion ==
  (Settled /\ inv.calls >= 1 /\ inv.only429) =>
    /\ inv.pc = "returned"
    /\ inv.calls = maxRetries + 1
    /\ Len(inv.delays) = maxRetries
    /\ StrictlyIncreasing(inv.delays)
    /\ inv.result = Literal("QuotaExceeded")

\* C4: a first remote call that fails with status 401 or 403, whatever its
\* message, ends the invocation: one remote call, no backoff, the
\* invalid-credential string.
C4_AuthFailsFast ==
  (inv.calls = 1 /\ inv.err.kind = "object" /\ IsAuthStatus(getStatus(inv.err))) =>
    /\ inv.pc = "returned"
    /\ inv.delays = <<>>
    /\ inv.result = Literal("InvalidCredential")

\* C5: after a first remote call that failed with status 503 the invocation
\* goes on to a second call, and when that call yields an AuditResult the
\* invocation returns it having slept once, for a delay in the backoff
\* window of attempt 0.
C5_RetryAfter503 ==
  inv.first503 =>
    /\ ~(Settled /\ inv.calls = 1)
    /\ (inv.pc = "returned" /\ inv.calls = 2 /\ IsAuditResult(inv.result.value)) =>
         /\ Len(inv.delays) = 1
         /\ baseDelay(inv.variant) <= inv.delays[1]
         /\ inv.delays[1] < baseDelay(inv.variant) + jitterBound(inv.variant)

\* C6: every returned value is a string or an object with a feedback member
\* and a wordBreakdown member.
C6_ResultShape ==
  inv.pc = "returned" =>
    inv.result.kind = "string" \/ IsAuditResult(inv.result.value)

\* C7: no invocation ends by throwing.
C7_NeverThrows == inv.pc # "threw"

\* C8: every invocation eventually settles with a string or a structured
\* result.
C8_EventuallyAnswers ==
  <>(inv.pc = "returned" /\
     (inv.result.kind = "string" \/ IsAuditResult(inv.result.value)))

\* Every invocation eventually returns or throws.
EventuallySettles == <>Settled

\* C9: a caught failure of a class other than QuotaExceeded and
\* ServerUnavailable is returned at once as a string, and one of class
\* Unknown as a string carrying the raw diagnostic message.
C9_NonRetryableSurfaced ==
  (inv.err.kind # "none" /\ SpecClass(inv.err) \notin {"QuotaExceeded", "ServerUnavailable"}) =>
    /\ inv.pc = "returned"
    /\ inv.result.kind = "string"
    /\ SpecClass(inv.err) = "Unknown" =>
         inv.result = Str("AnalysisFailed", MessageString(inv.err))

\* C10: a caught failure of class QuotaExceeded or ServerUnavailable at an
\* attempt below maxRetries is followed by a backoff suspend.
C10_RetryableAbsorbed ==
  (/\ inv.err.kind # "none"
   /\ SpecClass(inv.err) \in {"QuotaExceeded", "ServerUnavailable"}
   /\ inv.attempt < maxRetries) =>
    inv.pc = "sleeping"

\* C11: a caught failure of class Blocked (a safety-block or leaked-key
\* marker in its message, whatever its status and its other markers, at any
\* attempt) is not retried: the blocked string is returned at once.
C11_BlockedTerminal ==
  (inv.err.kind # "none" /\ SpecClass(inv.err) = "Blocked") =>
    /\ inv.pc = "returned"
    /\ inv.result = Literal("Blocked")

\* C12: a caught failure of class QuotaExceeded or ServerUnavailable at
\* attempt maxRetries ends the invocation with the string of its class: the
\* quota-exceeded string for QuotaExceeded, and for ServerUnavailable a
\* string that is not the Analysis Failed template with the raw message.
C12_ExhaustionMessage ==
  (/\ inv.err.kind # "none"
   /\ inv.attempt = maxRetries
   /\ SpecClass(inv.err) \in {"QuotaExceeded", "ServerUnavailable"}) =>
    /\ inv.pc = "returned"
    /\ inv.result.kind = "string"
    /\ SpecClass(inv.err) = "QuotaExceeded" => inv.result = Literal("QuotaExceeded")
    /\ SpecClass(inv.err) = "ServerUnavailable" => inv.result.tag # "AnalysisFailed"

\* C13: a caught failure of class NotFound (status 404 or "not found" in
\* its message) is not retried: the model-not-found string is returned at
\* once.
C13_NotFoundTerminal ==
  (inv.err.kind # "none" /\ SpecClass(inv.err) = "NotFound") =>
    /\ inv.pc = "returned"
    /\ inv.result = Literal("ModelNotFound")


\* A credential that is a string with a character other than white space.
Usable(k) == k.some /\ Trim(k.v) # <<>>

\* The process-level default credential, if there is one.
DefaultKey == IF inv.env.proc THEN inv.env.key ELSE Undefined

\* C14: the MissingCredential string is returned exactly when neither the
\* caller's value nor the process-level default is a usable credential; the
\* client is built with the caller's value when the caller gave one and
\* with the default otherwise; and with a usable default the
\* MissingCredential string is never returned.
C14_CredentialResolution ==
  inv.pc # "entry" =>
    /\ inv.result = Literal("MissingCredential") <=>
         ~Usable(inv.userApiKey) /\ ~Usable(DefaultKey)
    /\ inv.calls >= 1 =>
         inv.apiKey = IF Truthy(inv.userApiKey) THEN inv.userApiKey ELSE DefaultKey
    /\ Usable(DefaultKey) => inv.result # Literal("MissingCredential")

\* The JSON text of d between an opening fence, with a language tag or
\* without, and a closing fence.
Fenced(d, tagged) ==
  <<Tok("fence")>> \o (IF tagged THEN <<Tok("tag")>> ELSE <<>>) \o
  <<Tok("nl"), Doc(d), Tok("nl"), Tok("fence")>>

\* C15: when the remote call resolved with the JSON text of an AuditResult
\* wrapped in code fences, the invocation returned that AuditResult, with
\* the entries of the payload as its wordBreakdown.
C15_FencesStripped ==
  \A d \in AuditResults, tagged \in BOOLEAN :
    inv.response = Response(Some(Fenced(d, tagged))) =>
      /\ inv.pc = "returned"
      /\ inv.result = Value(d)

\* C17: when the remote call resolved with the wire form of a valid
\* AuditResult, the invocation returned an equal value: the same feedback
\* and the same wordBreakdown entries in the same order.
C17_RoundTrip ==
  \A d \in AuditResults :
    inv.response = Response(Some(<<Doc(d)>>)) =>
      /\ inv.pc = "returned"
      /\ inv.result = Value(d)

\* An AuditResult of two different entries went over the wire and came back.
C17_Witness ==
  LET hola == [targetWord |-> "Hola", sourceEquivalent |-> "Hello", context |-> "greeting"]
      mundo == [targetWord |-> "mundo", sourceEquivalent |-> "world", context |-> "noun"]
      d == JObject([some |-> TRUE, v |-> "tone shift"],
                   [some |-> TRUE, v |-> <<hola, mundo>>])
  IN  /\ inv.pc = "returned"
      /\ inv.response = Response(Some(<<Doc(d)>>))
      /\ inv.result.kind = "value"
      /\ inv.result.value.feedback.v = "tone shift"
      /\ inv.result.value.wordBreakdown.v = <<hola, mundo>>

\* One invocation on its own, from state s, through the outcomes outs of
\* its remote calls (a sleep it is in elapses before the next call).
Feed(s, out) ==
  IF out.rejects THEN Caught(s, out.err, 0)
  ELSE Resolved([s EXCEPT !.response = Response(out.text)], out.o, 0)

RECURSIVE Run(_, _)
Run(s, outs) ==
  IF outs = <<>> THEN s
  ELSE Run(Feed(IF s.pc = "sleeping" THEN Woken(s) ELSE s, Head(outs)), Tail(outs))

\* Invocation i had it run alone with its arguments and its outcomes.
Alone(i) ==
  LET s == Get(i)
      start == Start(s.variant, s.userApiKey, s.env, s.sourceText, s.targetText)
  IN  IF s.pc = "entry" THEN start ELSE Run(Validate(start), fed[i])

\* The same position, attempt counter, number of remote calls and result.
Same(x, y) ==
  /\ x.pc = y.pc
  /\ x.attempt = y.attempt
  /\ x.calls = y.calls
  /\ x.result = y.result

Suspends == Len(inv.delays)
Elapsed == Suspends - (IF inv.pc = "sleeping" THEN 1 ELSE 0)

SequentialStep ==
  /\ inv'.calls # inv.calls =>
       /\ inv'.calls = inv.calls + 1
       /\ inv'.pc = "awaitCall"
       /\ (inv.pc = "entry" /\ inv.calls = 0) \/ inv.pc = "sleeping"
  /\ inv'.delays # inv.delays =>
       /\ inv.pc = "awaitCall"
       /\ inv'.pc = "sleeping"
       /\ Len(inv'.delays) = Len(inv.delays) + 1
  /\ Settled => inv' = inv

\* Every step of an invocation is in sequence.
AlwaysSequential == [][SequentialStep]_vars

\* C19: the steps of one invocation are strictly sequential, and a remote
\* call after the first is issued only when the sleep elapsed that followed
\* a failure of class QuotaExceeded or ServerUnavailable.
C19_Sequential ==
  [][/\ SequentialStep
     /\ inv'.calls > inv.calls /\ inv.pc = "sleeping" =>
          SpecClass(inv.err) \in {"QuotaExceeded", "ServerUnavailable"}]_vars

\* The value the attempt counter had at the first failure.
FirstIndex == inv.attempt - Elapsed

\* C20: the delay slept after a failure at attempt index k, 0 <= k <
\* maxRetries, is baseDelay * 2^k plus a jitter of 0 .. 500 ms, and so it is
\* greater than any delay that can follow a failure at index k - 1.
C20_BackoffDelay ==
  \A i \in 1..Len(inv.delays) :
    LET k == FirstIndex + i - 1
        jitter == inv.delays[i] - baseDelay(inv.variant) * Pow2(k)
    IN  /\ k \in 0..(maxRetries - 1)
        /\ jitter \in 0..500
        /\ k > 0 => inv.delays[i] > baseDelay(inv.variant) * Pow2(k - 1) + 500

\* Three retries, the first and the last with the greatest jitter.
C20_Witness ==
  /\ inv.variant = "svc3"
  /\ inv.delays = <<2499, 4000, 8499>>
  /\ inv.attempt = maxRetries

\* The remote call of this iteration resolved with response.text undefined
\* or "".
EmptyPayload ==
  inv.response.some /\ (~inv.response.text.some \/ inv.response.text.v = <<>>)

\* C21: when the remote call resolved with an absent or empty text, the
\* invocation returned a string, not a parsed value, and did not retry.
C21_EmptyResponse ==
  EmptyPayload =>
    /\ inv.pc = "returned"
    /\ inv.result.kind = "string"
    /\ inv.result.tag = "AnalysisFailed"

\* An empty text came after one retry and ended the invocation.
C21_Witness ==
  /\ inv.response = Response(Some(<<>>))
  /\ inv.attempt = 1
  /\ inv.calls = 2
  /\ inv.pc = "returned"
  /\ inv.result.kind = "string"

\* The remote call of this iteration resolved with a text that is not empty
\* and the try body threw on parsing it.
ParseFailed == inv.response.some /\ ~EmptyPayload /\ inv.err.kind # "none"

\* C22: when the remote call resolved with a text that cannot be parsed, the
\* invocation returned the Analysis Failed string at once: not the quota,
\* invalid-credential or blocked string, and no retry.
C22_ParseFailureTerminal ==
  ParseFailed =>
    /\ inv.pc = "returned"
    /\ inv.result.kind = "string"
    /\ inv.result.tag = "AnalysisFailed"

\* C23: for a caught failure of class Unknown, the part of the diagnostic
\* message in the returned string is no longer than a constant, whatever
\* the length of the message.
C23_BoundedDiagnostic ==
  (inv.err.kind # "none" /\ SpecClass(inv.err) = "Unknown" /\ inv.pc = "returned") =>
    /\ inv.result.kind = "string"
    /\ inv.result.detail.len <= SubstringLimit

\* The text of a JSON string whose content is the JSON text of d.
Encoded(d) == <<Doc(JString(<<Doc(d)>>))>>

\* C24: when the remote call resolved with a JSON string that holds the JSON
\* text of d, the invocation returned d, the result of parsing once more
\* and no further (d an object, or itself a string holding JSON text); and
\* a payload that is an object was returned as parsed the first time.
C24_DoubleParse ==
  /\ \A d \in {OneAudit, JString(<<Doc(OneAudit)>>)} :
       inv.response = Response(Some(Encoded(d))) =>
         /\ inv.pc = "returned"
         /\ inv.result = Value(d)
  /\ inv.response = Response(Some(<<Doc(OneAudit)>>)) =>
       /\ inv.pc = "returned"
       /\ inv.result = Value(OneAudit)

\* C25: a sleep, and the continue after it, happens only with the attempt
\* counter below maxRetries, so the loop test never fails and the return
\* after the loop is never the result.
C25_PostLoopUnreachable ==
  /\ inv.pc = "sleeping" => inv.attempt < maxRetries
  /\ inv.result # Literal("RetriesExhausted")

\* The last iteration: a quota failure at attempt maxRetries returned from
\* inside the loop.
C25_Witness ==
  /\ inv.variant = "svc1"
  /\ inv.attempt = maxRetries
  /\ inv.calls = maxRetries + 1
  /\ inv.err.kind # "none"
  /\ inv.pc = "returned"
  /\ inv.result = Literal("QuotaExceeded")

\* C26: getStatus returns the status field when it is defined, otherwise
\* response.status when that is defined, otherwise cause.status, and
\* undefined when none is or the failure is null or undefined.
C26_GetStatus ==
  inv.pc = "gotStatus" =>
    LET e == inv.err
    IN  /\ e.kind \in {"null", "undefined"} => inv.status = NoNum
        /\ e.status.some => inv.status = e.status
        /\ ~e.status.some /\ e.response.some => inv.status = e.response
        /\ ~e.status.some /\ ~e.response.some /\ e.cause.some =>
             inv.status = e.cause
        /\ ~e.status.some /\ ~e.response.some /\ ~e.cause.some =>
             inv.status = NoNum

\* A failure with no status of its own, a response status and a cause
\* status: the response status was returned.
C26_Witness ==
  /\ inv.pc = "gotStatus"
  /\ inv.err = ErrObject(NoNum, Num(429), Num(503), NoMsg)
  /\ inv.status = Num(429)

============================================================================
